---- MODULE Spec2Model ----
(***************************************************************************)
(* Password-reset token lifecycle of Budget-Sync                           *)
(* (src/src/budget_sync/auth/routes.py: forgot_password, reset_password).  *)
(*                                                                         *)
(* Persistent state is the users table and the password_reset_tokens      *)
(* table.  Every request runs in its own SQLAlchemy session: what a       *)
(* handler reads is a snapshot taken by its query, what it writes stays   *)
(* pending in the session until db.session.commit() makes all of it       *)
(* visible at once, or an exception / a crash discards all of it.          *)
(* Several requests are served concurrently, so the steps of two handlers *)
(* interleave at every access to the database and to the clock.            *)
(*                                                                         *)
(* req[p] is the request worker p is serving; done is the request the    *)
(* latest step completed, with the response it got (NoRequest when the    *)
(* latest step completed none); redemptions counts, per token row, the    *)
(* reset_password requests that committed with it; rendered tells, per     *)
(* token row, whether a GET has been answered with the reset form for it. *)
(*                                                                         *)
(* Spec serves forgot_password and reset_password on two workers;          *)
(* SerialSpec serves them on one worker, one request after another, for    *)
(* longer runs; AccountSpec adds register and login to Spec.               *)
(***************************************************************************)
EXTENDS Integers, Sequences, FiniteSets, TLC

VARIABLES now, users, tokens, req, nreq, outbox, done, redemptions, rendered

vars == <<now, users, tokens, req, nreq, outbox, done, redemptions, rendered>>

(* ------------------------------ bounds -------------------------------- *)
\* worker threads serving requests concurrently
NumProcs == 2
\* requests served in one behaviour
MaxRequests == 3
\* requests served in one behaviour by a single worker, one after another
MaxSerialRequests == 4
\* last instant of the clock
MaxTime == 2
\* clock instants per hour
TicksPerHour == 1

(* ------------------------- program constants -------------------------- *)
\* PasswordResetToken(user_id=user.id, expiration_hours=1)
expiration_hours == 1

Procs == 1..NumProcs

\* The accounts of the store: id -> email.  Nobody owns NoAccountEmail.
UserEmail == <<"test@example.com", "other@example.com">>
UserIds == DOMAIN UserEmail
NoAccountEmail == "nonexistent@example.com"
InvalidEmail == "invalid-email"
EmailInputs == {UserEmail[u] : u \in UserIds} \cup {NoAccountEmail, InvalidEmail}

OldPassword == "Password@123456789"
NewPassword == "NewPassword@123456789"
WeakPassword == "weak"
Passwords == {OldPassword, NewPassword, WeakPassword}

\* token strings a client may present: every string ever issued, and 0,
\* which is never issued
TokenInputs == 0..MaxRequests

Methods == {"GET", "POST"}

(* ----------------------------- responses ------------------------------ *)
FlashGeneric == "If an account exists with that email, a password reset link has been sent."
FlashInvalid == "Invalid or expired reset link."
FlashUsed == "This reset link has already been used."
FlashExpired == "This reset link has expired. Please request a new one."
FlashSuccess == "Your password has been reset successfully. You can now log in."
NoFlash == ""

Redirect(endpoint, flash) == [code |-> 302, body |-> endpoint, flash |-> flash]
Render(template) == [code |-> 200, body |-> template, flash |-> NoFlash]
\* @app.errorhandler(500): the flash of the aborted request stays queued in
\* the client's session, the response is the JSON error
internal_error(flash) == [code |-> 500, body |-> "Internal server error", flash |-> flash]
NoResponse == [code |-> 0, body |-> "", flash |-> NoFlash]

(* --------------------------- pure functions --------------------------- *)
\* bcrypt.generate_password_hash: a salted one-way hash.  The salt is fresh
\* for every call; the serial of the calling request stands for it.
generate_password_hash(pw, salt) == [pw |-> pw, salt |-> salt]

\* bcrypt.check_password_hash
check_password_hash(hash, pw) == hash.pw = pw

\* PasswordResetToken giving every row the same token string
PasswordResetToken_same_string(user_id, hours, fresh, t) ==
    [token |-> 1, user_id |-> user_id, created_at |-> t,
     expires_at |-> t + hours * TicksPerHour, used |-> FALSE]

\* PasswordResetToken.__init__: token string, expiry, used flag.  The random
\* token string of secrets is a value no earlier call returned: the serial
\* of the issuing request.
PasswordResetToken(user_id, hours, fresh, t) ==
    [token |-> fresh, user_id |-> user_id, created_at |-> t,
     expires_at |-> t + hours * TicksPerHour, used |-> FALSE]

\* new_reset_token asking for two hours
new_reset_token_2h(user, fresh, t) == PasswordResetToken(user, 2, fresh, t)

\* line 105: PasswordResetToken(user_id=user.id, expiration_hours=1)
new_reset_token(user, fresh, t) == PasswordResetToken(user, expiration_hours, fresh, t)

\* PasswordResetToken.is_expired
is_expired(row, t) == t > row.expires_at

\* FirstByToken without the filter: the first row, whatever its token string
FirstByToken_unfiltered(ts, s) == IF ts = <<>> THEN 0 ELSE 1

\* PasswordResetToken.query.filter_by(token=token).first(): the row id of the
\* first row whose token string is exactly s, 0 when there is none
FirstByToken(ts, s) ==
    LET hits == {i \in DOMAIN ts : ts[i].token = s}
    IN  IF hits = {} THEN 0 ELSE CHOOSE i \in hits : \A j \in hits : i <= j

NoRow == [id |-> 0, user_id |-> 0, expires_at |-> 0, used |-> FALSE]

\* the object the query loads: a copy of the row as it was when read
LoadToken(ts, s) ==
    LET i == FirstByToken(ts, s)
    IN  IF i = 0 THEN NoRow
        ELSE [id |-> i, user_id |-> ts[i].user_id,
              expires_at |-> ts[i].expires_at, used |-> ts[i].used]

\* User.query.filter_by(email=email).first()
UserByEmail(us, email) ==
    LET hits == {u \in DOMAIN us : us[u].email = email}
    IN  IF hits = {} THEN 0 ELSE CHOOSE u \in hits : \A v \in hits : u <= v

\* validate with the expiry checked before the used flag
validate_expiry_first(row, t) ==
    IF row.id = 0 THEN "NotFound"
    ELSE IF is_expired(row, t) THEN "Expired"
    ELSE IF row.used THEN "AlreadyUsed"
    ELSE "Valid"

\* validate without the expiry check
validate_no_expiry(row, t) ==
    IF row.id = 0 THEN "NotFound"
    ELSE IF row.used THEN "AlreadyUsed"
    ELSE "Valid"

\* validate without the used check
validate_no_used(row, t) ==
    IF row.id = 0 THEN "NotFound"
    ELSE IF is_expired(row, t) THEN "Expired"
    ELSE "Valid"

\* reset_password's checks of the loaded token, in the handler's order
validate(row, t) ==
    IF row.id = 0 THEN "NotFound"
    ELSE IF row.used THEN "AlreadyUsed"
    ELSE IF is_expired(row, t) THEN "Expired"
    ELSE "Valid"

\* forgot_password_response telling the client that nobody has the email
forgot_password_response_telling(user) ==
    IF user = 0 THEN Redirect("auth.login", "No account found with that email.")
    ELSE Redirect("auth.login", FlashGeneric)

\* forgot_password's answer to a valid submission, whether or not a user
\* (0: none) has the email
forgot_password_response(user) == Redirect("auth.login", FlashGeneric)

\* the response of each rejection
Rejection(outcome) ==
    CASE outcome = "NotFound" -> Redirect("auth.forgot_password", FlashInvalid)
      [] outcome = "AlreadyUsed" -> Redirect("auth.forgot_password", FlashUsed)
      [] outcome = "Expired" -> Redirect("auth.forgot_password", FlashExpired)

\* ForgotPasswordForm.validate_on_submit
ForgotFormValid(method, email) == method = "POST" /\ email # InvalidEmail

\* ResetPasswordForm.validate_on_submit: strength policy and confirmation
StrongPassword(pw) == pw # WeakPassword
ResetFormValid(method, pw, confirm) ==
    method = "POST" /\ StrongPassword(pw) /\ pw = confirm

\* reset_link built without the token string
reset_link_no_token(token) == <<"auth", "reset-password", 0>>

\* url_for('auth.reset_password', token=..., _external=True): the path
\* segments of the link, the token string the last one
reset_link(token) == <<"auth", "reset-password", token>>

\* @auth_bp.route('/reset-password/<token>'): the view's token argument is
\* the path segment after "reset-password"
path_token(link) == link[Len(link)]

\* what the email provider may do with a message
ProviderOutcomes ==
    {[raised |-> FALSE, status |-> s] : s \in {200, 201, 202, 400, 500}}
        \cup {[raised |-> TRUE, status |-> 0]}

\* send_password_reset_email accepting status 200 only
send_password_reset_email_200_only(api_key, outcome) ==
    IF ~api_key THEN FALSE
    ELSE IF outcome.raised THEN FALSE
    ELSE outcome.status = 200

\* send_password_reset_email
send_password_reset_email(api_key, outcome) ==
    IF ~api_key THEN FALSE
    ELSE IF outcome.raised THEN FALSE
    ELSE outcome.status \in {200, 201, 202}

(* ------------------------------- state -------------------------------- *)
NoPending == [user_id |-> 0, hash |-> generate_password_hash("", 0), token_id |-> 0]
NoToken == PasswordResetToken(0, 0, 0, 0)
\* the provider was not called
NoOutcome == [raised |-> FALSE, status |-> 0]

Idle ==
    [kind |-> "none", pc |-> "idle", serial |-> 0, authed |-> FALSE,
     method |-> "", email |-> "", token |-> 0, password |-> "",
     confirm |-> "", row |-> NoRow, late |-> FALSE, pend |-> NoPending,
     newtok |-> NoToken, api_key |-> FALSE, provider |-> NoOutcome]

\* a completed request: what was asked, what the handler had loaded, whether
\* a redemption with its token had committed before it looked the token up
\* (late), the writes it had staged, whether an API key was configured and
\* what the provider did when it called the notifier, how it ended (fault:
\* "none", "exception" or "crash"), the response
Completed(r, fault, response) ==
    [kind |-> r.kind, serial |-> r.serial, authed |-> r.authed, method |-> r.method,
     email |-> r.email, token |-> r.token, password |-> r.password,
     confirm |-> r.confirm, row |-> r.row, late |-> r.late, pend |-> r.pend,
     api_key |-> r.api_key, provider |-> r.provider,
     fault |-> fault, resp |-> response]

NoRequest == Completed(Idle, "none", NoResponse)

Init ==
    /\ now = 0
    /\ users = [u \in UserIds |->
                  [email |-> UserEmail[u],
                   password_hash |-> generate_password_hash(OldPassword, 0)]]
    /\ tokens = <<>>
    /\ req = [p \in Procs |-> Idle]
    /\ nreq = 0
    /\ outbox = <<>>
    /\ done = NoRequest
    /\ redemptions = <<>>
    /\ rendered = <<>>

\* the first free worker takes the next request
CanStart(p) ==
    /\ req[p].pc = "idle"
    /\ \A q \in Procs : q < p => req[q].pc # "idle"

\* the handler returns: the worker is free again
Finish(p, r, fault, response) ==
    /\ req' = [req EXCEPT ![p] = Idle]
    /\ done' = Completed(r, fault, response)

\* the handler goes on to its next step
Continue(p, r) ==
    /\ req' = [req EXCEPT ![p] = r]
    /\ done' = NoRequest

(* --------------------------- forgot_password -------------------------- *)
\* lines 93-106: the guard, the form, the lookup, the flash, the new token
forgot_password_begin(p, authed, method, email) ==
    LET r == [Idle EXCEPT !.kind = "forgot", !.serial = nreq + 1,
                          !.authed = authed, !.method = method, !.email = email]
        user == UserByEmail(users, email)
    IN  /\ CanStart(p)
        /\ nreq' = nreq + 1
        /\ IF authed THEN Finish(p, r, "none", Redirect("main.dashboard", NoFlash))
           ELSE IF ~ForgotFormValid(method, email)
                THEN Finish(p, r, "none", Render("auth/forgot_password.html"))
           ELSE IF user = 0
                THEN Finish(p, r, "none", forgot_password_response(user))
           ELSE Continue(p, [r EXCEPT !.pc = "commit",
                                      !.newtok = new_reset_token(user, nreq + 1, now)])
        /\ UNCHANGED <<now, users, tokens, outbox, redemptions, rendered>>

\* forgot_password_commit making the old password unusable until the reset
forgot_password_commit_locking(p) ==
    /\ req[p].kind = "forgot" /\ req[p].pc = "commit"
    /\ tokens' = Append(tokens, req[p].newtok)
    /\ redemptions' = Append(redemptions, 0)
    /\ rendered' = Append(rendered, FALSE)
    /\ users' = [users EXCEPT ![req[p].newtok.user_id].password_hash =
                                generate_password_hash("", req[p].serial)]
    /\ Continue(p, [req[p] EXCEPT !.pc = "send"])
    /\ UNCHANGED <<now, nreq, outbox>>

\* forgot_password_commit without db.session.commit(): the row stays pending
\* in the session while the notifier is called
forgot_password_commit_unpersisted(p) ==
    /\ req[p].kind = "forgot" /\ req[p].pc = "commit"
    /\ Continue(p, [req[p] EXCEPT !.pc = "send"])
    /\ UNCHANGED <<now, users, tokens, nreq, outbox, redemptions, rendered>>

\* forgot_password_commit giving the user's earlier tokens the expiry of the
\* new one
forgot_password_commit_extending(p) ==
    /\ req[p].kind = "forgot" /\ req[p].pc = "commit"
    /\ tokens' = Append([i \in DOMAIN tokens |->
                            IF tokens[i].user_id = req[p].newtok.user_id
                            THEN [tokens[i] EXCEPT !.expires_at = req[p].newtok.expires_at]
                            ELSE tokens[i]],
                        req[p].newtok)
    /\ redemptions' = Append(redemptions, 0)
    /\ rendered' = Append(rendered, FALSE)
    /\ Continue(p, [req[p] EXCEPT !.pc = "send"])
    /\ UNCHANGED <<now, users, nreq, outbox>>

\* forgot_password_commit invalidating the user's earlier tokens
forgot_password_commit_invalidating(p) ==
    /\ req[p].kind = "forgot" /\ req[p].pc = "commit"
    /\ tokens' = Append([i \in DOMAIN tokens |->
                            IF tokens[i].user_id = req[p].newtok.user_id
                            THEN [tokens[i] EXCEPT !.used = TRUE] ELSE tokens[i]],
                        req[p].newtok)
    /\ redemptions' = Append(redemptions, 0)
    /\ rendered' = Append(rendered, FALSE)
    /\ Continue(p, [req[p] EXCEPT !.pc = "send"])
    /\ UNCHANGED <<now, users, nreq, outbox>>

\* line 107: db.session.commit() inserts the row
forgot_password_commit(p) ==
    /\ req[p].kind = "forgot" /\ req[p].pc = "commit"
    /\ tokens' = Append(tokens, req[p].newtok)
    /\ redemptions' = Append(redemptions, 0)
    /\ rendered' = Append(rendered, FALSE)
    /\ Continue(p, [req[p] EXCEPT !.pc = "send"])
    /\ UNCHANGED <<now, users, nreq, outbox>>

\* forgot_password_fail with the row flushed to the table before the commit
\* fails
forgot_password_fail_inserting(p, crash) ==
    /\ req[p].kind = "forgot" /\ req[p].pc = "commit"
    /\ tokens' = Append(tokens, req[p].newtok)
    /\ redemptions' = Append(redemptions, 0)
    /\ rendered' = Append(rendered, FALSE)
    /\ IF crash THEN Finish(p, req[p], "crash", NoResponse)
       ELSE Finish(p, req[p], "exception", internal_error(FlashGeneric))
    /\ UNCHANGED <<now, users, nreq, outbox>>

\* line 107 raising (storage failure): nothing is inserted, the 500 handler
\* answers; or the process dies and nobody answers
forgot_password_fail(p, crash) ==
    /\ req[p].kind = "forgot" /\ req[p].pc = "commit"
    /\ IF crash THEN Finish(p, req[p], "crash", NoResponse)
       ELSE Finish(p, req[p], "exception", internal_error(FlashGeneric))
    /\ UNCHANGED <<now, users, tokens, nreq, outbox, redemptions, rendered>>

\* forgot_password_send revoking the token it issued when the notifier fails
forgot_password_send_revoking(p, api_key, outcome) ==
    LET sent == send_password_reset_email(api_key, outcome)
        i == FirstByToken(tokens, req[p].newtok.token)
    IN  /\ req[p].kind = "forgot" /\ req[p].pc = "send"
        /\ outbox' = Append(outbox,
                [to |-> users[req[p].newtok.user_id].email,
                 link |-> reset_link(req[p].newtok.token),
                 sent |-> sent])
        /\ tokens' = IF sent THEN tokens ELSE [tokens EXCEPT ![i].used = TRUE]
        /\ Finish(p, [req[p] EXCEPT !.api_key = api_key, !.provider = outcome],
                  "none", forgot_password_response(req[p].newtok.user_id))
        /\ UNCHANGED <<now, users, nreq, redemptions, rendered>>

\* forgot_password_send telling the client that the email could not be sent
forgot_password_send_surfacing(p, api_key, outcome) ==
    LET sent == send_password_reset_email(api_key, outcome)
    IN  /\ req[p].kind = "forgot" /\ req[p].pc = "send"
        /\ outbox' = Append(outbox,
                [to |-> users[req[p].newtok.user_id].email,
                 link |-> reset_link(req[p].newtok.token),
                 sent |-> sent])
        /\ IF sent
           THEN Finish(p, [req[p] EXCEPT !.api_key = api_key, !.provider = outcome],
                       "none", forgot_password_response(req[p].newtok.user_id))
           ELSE Finish(p, [req[p] EXCEPT !.api_key = api_key, !.provider = outcome],
                       "none", Redirect("auth.forgot_password", "The email could not be sent."))
        /\ UNCHANGED <<now, users, tokens, nreq, redemptions, rendered>>

\* lines 110-120: the link, the notifier, the redirect
forgot_password_send(p, api_key, outcome) ==
    /\ req[p].kind = "forgot" /\ req[p].pc = "send"
    /\ outbox' = Append(outbox,
            [to |-> users[req[p].newtok.user_id].email,
             link |-> reset_link(req[p].newtok.token),
             sent |-> send_password_reset_email(api_key, outcome)])
    /\ Finish(p, [req[p] EXCEPT !.api_key = api_key, !.provider = outcome],
              "none", forgot_password_response(req[p].newtok.user_id))
    /\ UNCHANGED <<now, users, tokens, nreq, redemptions, rendered>>

(* --------------------------- reset_password --------------------------- *)
\* what a client submits: a GET carries no form fields; a POST carries a
\* password and its confirmation, equal or (one pair) different
FormPairs == {<<pw, pw>> : pw \in Passwords} \cup {<<NewPassword, OldPassword>>}
ResetSubmissions ==
    {[method |-> "GET", password |-> "", confirm |-> ""]}
        \cup {[method |-> "POST", password |-> f[1], confirm |-> f[2]] : f \in FormPairs}

\* a reset_password request with this token string has committed
Redeemed(token) ==
    \E i \in DOMAIN tokens : tokens[i].token = token /\ redemptions[i] > 0

\* reset_password_begin without the guard of lines 127-128
reset_password_begin_unguarded(p, authed, token) ==
    LET r == [Idle EXCEPT !.kind = "reset", !.serial = nreq + 1,
                          !.authed = authed, !.token = token]
    IN  /\ CanStart(p)
        /\ nreq' = nreq + 1
        /\ Continue(p, [r EXCEPT !.pc = "check", !.row = LoadToken(tokens, token),
                                 !.late = Redeemed(token)])
        /\ UNCHANGED <<now, users, tokens, outbox, redemptions, rendered>>

\* lines 127-131: the guard and the query
reset_password_begin(p, authed, token) ==
    LET r == [Idle EXCEPT !.kind = "reset", !.serial = nreq + 1,
                          !.authed = authed, !.token = token]
    IN  /\ CanStart(p)
        /\ nreq' = nreq + 1
        /\ IF authed THEN Finish(p, r, "none", Redirect("main.dashboard", NoFlash))
           ELSE Continue(p, [r EXCEPT !.pc = "check", !.row = LoadToken(tokens, token),
                                      !.late = Redeemed(token)])
        /\ UNCHANGED <<now, users, tokens, outbox, redemptions, rendered>>

\* reset_password_check trusting a token for which the form was rendered
reset_password_check_trusting_form(p, sub) ==
    LET r == [req[p] EXCEPT !.method = sub.method, !.password = sub.password,
                            !.confirm = sub.confirm]
        outcome == IF r.row.id # 0 /\ rendered[r.row.id] THEN "Valid"
                   ELSE validate(r.row, now)
    IN  /\ r.kind = "reset" /\ r.pc = "check"
        /\ IF outcome # "Valid" THEN Finish(p, r, "none", Rejection(outcome))
           ELSE IF ~ResetFormValid(r.method, r.password, r.confirm)
                THEN Finish(p, r, "none", Render("auth/reset_password.html"))
           ELSE Continue(p, [r EXCEPT !.pc = "commit",
                                      !.pend = [user_id |-> r.row.user_id,
                                                hash |-> generate_password_hash(r.password, r.serial),
                                                token_id |-> r.row.id]])
        /\ rendered' = IF outcome = "Valid" /\ r.method = "GET"
                       THEN [rendered EXCEPT ![r.row.id] = TRUE] ELSE rendered
        /\ UNCHANGED <<now, users, tokens, nreq, outbox, redemptions>>

\* reset_password_check spending the token on a submission it rejects
reset_password_check_burning(p, sub) ==
    LET r == [req[p] EXCEPT !.method = sub.method, !.password = sub.password,
                            !.confirm = sub.confirm]
        outcome == validate(r.row, now)
    IN  /\ r.kind = "reset" /\ r.pc = "check"
        /\ IF outcome # "Valid"
           THEN tokens' = tokens /\ Finish(p, r, "none", Rejection(outcome))
           ELSE IF ~ResetFormValid(r.method, r.password, r.confirm)
                THEN /\ tokens' = [tokens EXCEPT ![r.row.id].used = TRUE]
                     /\ Finish(p, r, "none", Render("auth/reset_password.html"))
           ELSE /\ tokens' = tokens
                /\ Continue(p, [r EXCEPT !.pc = "commit",
                                          !.pend = [user_id |-> r.row.user_id,
                                                    hash |-> generate_password_hash(r.password, r.serial),
                                                    token_id |-> r.row.id]])
        /\ rendered' = IF outcome = "Valid" /\ r.method = "GET"
                       THEN [rendered EXCEPT ![r.row.id] = TRUE] ELSE rendered
        /\ UNCHANGED <<now, users, nreq, outbox, redemptions>>

\* lines 133-152: the checks of the loaded token, the form (which reads the
\* submission), the two writes into the session
reset_password_check(p, sub) ==
    LET r == [req[p] EXCEPT !.method = sub.method, !.password = sub.password,
                            !.confirm = sub.confirm]
        outcome == validate(r.row, now)
    IN  /\ r.kind = "reset" /\ r.pc = "check"
        /\ IF outcome # "Valid" THEN Finish(p, r, "none", Rejection(outcome))
           ELSE IF ~ResetFormValid(r.method, r.password, r.confirm)
                THEN Finish(p, r, "none", Render("auth/reset_password.html"))
           ELSE Continue(p, [r EXCEPT !.pc = "commit",
                                      !.pend = [user_id |-> r.row.user_id,
                                                hash |-> generate_password_hash(r.password, r.serial),
                                                token_id |-> r.row.id]])
        /\ rendered' = IF outcome = "Valid" /\ r.method = "GET"
                       THEN [rendered EXCEPT ![r.row.id] = TRUE] ELSE rendered
        /\ UNCHANGED <<now, users, tokens, nreq, outbox, redemptions>>

\* reset_password_commit marking every token of the user as used
reset_password_commit_all_tokens(p) ==
    LET pend == req[p].pend
    IN  /\ req[p].kind = "reset" /\ req[p].pc = "commit"
        /\ users' = [users EXCEPT ![pend.user_id].password_hash = pend.hash]
        /\ tokens' = [i \in DOMAIN tokens |->
                         IF tokens[i].user_id = pend.user_id
                         THEN [tokens[i] EXCEPT !.used = TRUE] ELSE tokens[i]]
        /\ redemptions' = [redemptions EXCEPT ![pend.token_id] = @ + 1]
        /\ Finish(p, req[p], "none", Redirect("auth.login", FlashSuccess))
        /\ UNCHANGED <<now, nreq, outbox, rendered>>

\* reset_password_commit deleting the redeemed token instead of marking it
reset_password_commit_deleting(p) ==
    LET pend == req[p].pend
        keep == [i \in 1..(Len(tokens) - 1) |-> IF i < pend.token_id THEN i ELSE i + 1]
    IN  /\ req[p].kind = "reset" /\ req[p].pc = "commit"
        /\ users' = [users EXCEPT ![pend.user_id].password_hash = pend.hash]
        /\ tokens' = [i \in DOMAIN keep |-> tokens[keep[i]]]
        /\ redemptions' = [i \in DOMAIN keep |-> redemptions[keep[i]]]
        /\ rendered' = [i \in DOMAIN keep |-> rendered[keep[i]]]
        /\ Finish(p, req[p], "none", Redirect("auth.login", FlashSuccess))
        /\ UNCHANGED <<now, nreq, outbox>>

\* reset_password_commit without "user.password_hash = hashed_password"
reset_password_commit_keeping_hash(p) ==
    LET pend == req[p].pend
    IN  /\ req[p].kind = "reset" /\ req[p].pc = "commit"
        /\ tokens' = [tokens EXCEPT ![pend.token_id].used = TRUE]
        /\ redemptions' = [redemptions EXCEPT ![pend.token_id] = @ + 1]
        /\ Finish(p, req[p], "none", Redirect("auth.login", FlashSuccess))
        /\ UNCHANGED <<now, users, nreq, outbox, rendered>>

\* reset_password_commit without "reset_token.used = True"
reset_password_commit_unmarked(p) ==
    LET pend == req[p].pend
    IN  /\ req[p].kind = "reset" /\ req[p].pc = "commit"
        /\ users' = [users EXCEPT ![pend.user_id].password_hash = pend.hash]
        /\ redemptions' = [redemptions EXCEPT ![pend.token_id] = @ + 1]
        /\ Finish(p, req[p], "none", Redirect("auth.login", FlashSuccess))
        /\ UNCHANGED <<now, tokens, nreq, outbox, rendered>>

\* line 154: db.session.commit() writes both pending changes in one
\* transaction
reset_password_commit(p) ==
    LET pend == req[p].pend
    IN  /\ req[p].kind = "reset" /\ req[p].pc = "commit"
        /\ users' = [users EXCEPT ![pend.user_id].password_hash = pend.hash]
        /\ tokens' = [tokens EXCEPT ![pend.token_id].used = TRUE]
        /\ redemptions' = [redemptions EXCEPT ![pend.token_id] = @ + 1]
        /\ Finish(p, req[p], "none", Redirect("auth.login", FlashSuccess))
        /\ UNCHANGED <<now, nreq, outbox, rendered>>

\* reset_password_fail releasing the token for another attempt
reset_password_fail_releasing(p, crash) ==
    /\ req[p].kind = "reset" /\ req[p].pc = "commit"
    /\ tokens' = [tokens EXCEPT ![req[p].pend.token_id].used = FALSE]
    /\ IF crash THEN Finish(p, req[p], "crash", NoResponse)
       ELSE Finish(p, req[p], "exception", internal_error(NoFlash))
    /\ UNCHANGED <<now, users, nreq, outbox, redemptions, rendered>>

\* reset_password_fail with the password written in a transaction of its own,
\* before the one that marks the token
reset_password_fail_partial(p, crash) ==
    /\ req[p].kind = "reset" /\ req[p].pc = "commit"
    /\ users' = [users EXCEPT ![req[p].pend.user_id].password_hash = req[p].pend.hash]
    /\ IF crash THEN Finish(p, req[p], "crash", NoResponse)
       ELSE Finish(p, req[p], "exception", internal_error(NoFlash))
    /\ UNCHANGED <<now, tokens, nreq, outbox, redemptions, rendered>>

\* line 154 raising, or the process dying between the writes and the commit:
\* the transaction is rolled back
reset_password_fail(p, crash) ==
    /\ req[p].kind = "reset" /\ req[p].pc = "commit"
    /\ IF crash THEN Finish(p, req[p], "crash", NoResponse)
       ELSE Finish(p, req[p], "exception", internal_error(NoFlash))
    /\ UNCHANGED <<now, users, tokens, nreq, outbox, redemptions, rendered>>

(* ------------------------------- clock -------------------------------- *)
Tick ==
    /\ now < MaxTime
    /\ now' = now + 1
    /\ done' = NoRequest
    /\ UNCHANGED <<users, tokens, req, nreq, outbox, redemptions, rendered>>

ForgotBegin ==
    \E p \in Procs, authed \in BOOLEAN, method \in Methods, email \in EmailInputs :
        nreq < MaxRequests /\ forgot_password_begin(p, authed, method, email)
ForgotCommit == \E p \in Procs : forgot_password_commit(p)
ForgotFail == \E p \in Procs, crash \in BOOLEAN : forgot_password_fail(p, crash)
\* without an API key the provider is not called
ForgotSend ==
    \E p \in Procs, api_key \in BOOLEAN, outcome \in ProviderOutcomes \cup {NoOutcome} :
        (api_key <=> outcome # NoOutcome) /\ forgot_password_send(p, api_key, outcome)
ResetBegin ==
    \E p \in Procs, authed \in BOOLEAN, token \in TokenInputs :
        nreq < MaxRequests /\ reset_password_begin(p, authed, token)
ResetCheck == \E p \in Procs, sub \in ResetSubmissions : reset_password_check(p, sub)
ResetCommit == \E p \in Procs : reset_password_commit(p)
ResetFail == \E p \in Procs, crash \in BOOLEAN : reset_password_fail(p, crash)

Next ==
    \/ ForgotBegin
    \/ ForgotCommit
    \/ ForgotFail
    \/ ForgotSend
    \/ ResetBegin
    \/ ResetCheck
    \/ ResetCommit
    \/ ResetFail
    \/ Tick

Spec == Init /\ [][Next]_vars

(* -------------------------- register and login ----------------------- *)
FlashCreated == "Account created successfully. You can now log in."
FlashExists == "An account with this email already exists. Please log in."
FlashNoAccount == "No account found with that email."
FlashIncorrect == "Incorrect password. Try again."
FlashLoggedIn == "Login successful!"

\* RegistrationForm.validate_on_submit
RegistrationFormValid(method, email, pw) ==
    method = "POST" /\ email # InvalidEmail /\ StrongPassword(pw)

\* LoginForm.validate_on_submit
LoginFormValid(method, email, pw) ==
    method = "POST" /\ email # InvalidEmail /\ pw # ""

\* register inserting the user whether or not the email is taken
register_duplicating(p, authed, method, email, pw) ==
    LET r == [Idle EXCEPT !.kind = "register", !.serial = nreq + 1, !.authed = authed,
                          !.method = method, !.email = email, !.password = pw]
        new_user == [email |-> email,
                     password_hash |-> generate_password_hash(pw, nreq + 1)]
    IN  /\ CanStart(p)
        /\ nreq' = nreq + 1
        /\ IF authed
           THEN users' = users /\ Finish(p, r, "none", Redirect("main.dashboard", NoFlash))
           ELSE IF ~RegistrationFormValid(method, email, pw)
                THEN users' = users /\ Finish(p, r, "none", Render("auth/register.html"))
           ELSE users' = Append(users, new_user)
                /\ Finish(p, r, "none", Redirect("auth.login", FlashCreated))
        /\ UNCHANGED <<now, tokens, outbox, redemptions, rendered>>

\* lines 15-38: the guard, the form, the insert of the new user and its
\* commit; an insert that violates the uniqueness of the email raises
\* IntegrityError, which is rolled back
register(p, authed, method, email, pw) ==
    LET r == [Idle EXCEPT !.kind = "register", !.serial = nreq + 1, !.authed = authed,
                          !.method = method, !.email = email, !.password = pw]
        new_user == [email |-> email,
                     password_hash |-> generate_password_hash(pw, nreq + 1)]
    IN  /\ CanStart(p)
        /\ nreq' = nreq + 1
        /\ IF authed
           THEN users' = users /\ Finish(p, r, "none", Redirect("main.dashboard", NoFlash))
           ELSE IF ~RegistrationFormValid(method, email, pw)
                THEN users' = users /\ Finish(p, r, "none", Render("auth/register.html"))
           ELSE IF UserByEmail(users, email) # 0
                THEN users' = users
                     /\ Finish(p, r, "none", Redirect("auth.login", FlashExists))
           ELSE users' = Append(users, new_user)
                /\ Finish(p, r, "none", Redirect("auth.login", FlashCreated))
        /\ UNCHANGED <<now, tokens, outbox, redemptions, rendered>>

\* login answering without bcrypt.check_password_hash
login_response_any_password(us, authed, method, email, pw) ==
    LET user == UserByEmail(us, email)
    IN  IF authed THEN Redirect("main.dashboard", NoFlash)
        ELSE IF ~LoginFormValid(method, email, pw) THEN Render("auth/login.html")
        ELSE IF user = 0 THEN Redirect("auth.login", FlashNoAccount)
        ELSE Redirect("main.dashboard", FlashLoggedIn)

\* lines 45-79: the answer of login over the users table us: the guard, the
\* form, the lookup, the password check, login_user and the redirect (no
\* next page asked for)
login_response(us, authed, method, email, pw) ==
    LET user == UserByEmail(us, email)
    IN  IF authed THEN Redirect("main.dashboard", NoFlash)
        ELSE IF ~LoginFormValid(method, email, pw) THEN Render("auth/login.html")
        ELSE IF user = 0 THEN Redirect("auth.login", FlashNoAccount)
        ELSE IF ~check_password_hash(us[user].password_hash, pw)
             THEN Redirect("auth.login", FlashIncorrect)
        ELSE Redirect("main.dashboard", FlashLoggedIn)

\* lines 43-79: login is served in one step; it reads the users table and
\* writes nothing to the store
login(p, authed, method, email, pw) ==
    LET r == [Idle EXCEPT !.kind = "login", !.serial = nreq + 1, !.authed = authed,
                          !.method = method, !.email = email, !.password = pw]
    IN  /\ CanStart(p)
        /\ nreq' = nreq + 1
        /\ Finish(p, r, "none", login_response(users, authed, method, email, pw))
        /\ UNCHANGED <<now, users, tokens, outbox, redemptions, rendered>>

Register ==
    \E p \in Procs, authed \in BOOLEAN, method \in Methods,
       email \in EmailInputs, pw \in {NewPassword, WeakPassword} :
        nreq < MaxRequests /\ register(p, authed, method, email, pw)
Login ==
    \E p \in Procs, authed \in BOOLEAN, method \in Methods,
       email \in EmailInputs, pw \in {OldPassword, NewPassword} :
        nreq < MaxRequests /\ login(p, authed, method, email, pw)

\* all four handlers of the blueprint, served concurrently
AccountNext ==
    \/ ForgotBegin
    \/ ForgotCommit
    \/ ForgotFail
    \/ ForgotSend
    \/ ResetBegin
    \/ ResetCheck
    \/ ResetCommit
    \/ ResetFail
    \/ Register
    \/ Login
    \/ Tick

AccountSpec == Init /\ [][AccountNext]_vars

(* ----------------------- one worker, more requests -------------------- *)
\* The same handlers served by worker 1 alone: a request begins when the
\* one before it has returned, so no two requests overlap.
SerialForgotBegin ==
    \E authed \in BOOLEAN, method \in Methods, email \in EmailInputs :
        nreq < MaxSerialRequests /\ forgot_password_begin(1, authed, method, email)
SerialResetBegin ==
    \E authed \in BOOLEAN, token \in 0..MaxSerialRequests :
        nreq < MaxSerialRequests /\ reset_password_begin(1, authed, token)

SerialNext ==
    \/ SerialForgotBegin
    \/ ForgotCommit
    \/ ForgotFail
    \/ ForgotSend
    \/ SerialResetBegin
    \/ ResetCheck
    \/ ResetCommit
    \/ ResetFail
    \/ Tick

SerialSpec == Init /\ [][SerialNext]_vars

(* ------------------------------ claims -------------------------------- *)
\* a reset_password request of an anonymous client has just completed
ResetDone == done.kind = "reset" /\ ~done.authed

\* a valid forgot_password submission of an anonymous client has just completed
ForgotDone ==
    /\ done.kind = "forgot" /\ ~done.authed
    /\ done.method = "POST" /\ done.email # InvalidEmail

\* the step changes the users table or the tokens table
StoreChanges == users' # users \/ tokens' # tokens

\* C1: of the reset_password requests that present the same valid token, at
\* most one commits a redemption, under every interleaving of their steps.
C1_AtMostOneRedemption ==
    \A i \in DOMAIN redemptions : redemptions[i] <= 1

\* C2: once a redemption with a token has committed, every reset_password
\* request of an anonymous client that looks the token up afterwards, GET or
\* POST, is answered "already used", and no step of such a request changes
\* the users or the tokens table.
C2_LateRejected == ResetDone /\ done.late => done.resp = Rejection("AlreadyUsed")
C2_LateChangesNothing ==
    \A p \in Procs :
        req[p].kind = "reset" /\ req[p].late /\ req'[p] # req[p] => ~StoreChanges
C2_SecondRedemptionRejected ==
    [](C2_LateRejected) /\ [][C2_LateChangesNothing]_vars

\* C2 witness: a POST with matching strong passwords, arriving after the
\* token was redeemed, has been rejected as already used.
C2_Witness ==
    /\ ResetDone /\ done.late /\ done.method = "POST"
    /\ ResetFormValid(done.method, done.password, done.confirm)
    /\ done.resp = Rejection("AlreadyUsed")

\* C3: the new password hash and used=true become visible together: in every
\* state of the store a token is used only if its owner's hash was replaced,
\* a hash was replaced only if a token of that user is used, and every step
\* that changes the store, a failed or crashed commit included, is one
\* request's commit establishing both its hash and its token's flag.
C3_BothOrNeither ==
    /\ \A i \in DOMAIN tokens :
           tokens[i].used => users[tokens[i].user_id].password_hash.salt # 0
    /\ \A u \in DOMAIN users :
           users[u].password_hash.salt # 0 =>
               \E i \in DOMAIN tokens : tokens[i].user_id = u /\ tokens[i].used
C3_CommitWritesBoth ==
    (users' # users \/ \E i \in DOMAIN tokens : tokens'[i] # tokens[i]) =>
        \E p \in Procs :
            /\ req[p].kind = "reset" /\ req[p].pc = "commit"
            /\ users'[req[p].pend.user_id].password_hash = req[p].pend.hash
            /\ tokens'[req[p].pend.token_id].used
C3_RedemptionAtomic ==
    [](C3_BothOrNeither) /\ [][C3_CommitWritesBoth]_vars

\* C3 witness: a redemption whose two writes were pending has crashed before
\* its commit, and the store shows neither of them.
C3_Witness ==
    /\ ResetDone /\ done.fault = "crash"
    /\ ~tokens[done.row.id].used
    /\ users[done.row.user_id].password_hash.salt = 0

\* the answer forgot_password gives when nobody has the submitted email
NoAccountAnswer == Redirect("auth.login", FlashGeneric)

\* C4: a valid forgot_password submission of an anonymous client that ends
\* without a storage failure gets the same response whether or not the email
\* has an account; a submission for an email without account is answered in
\* its first step, and that step adds no token row and calls no notifier.
C4_SameAnswer == ForgotDone /\ done.fault = "none" => done.resp = NoAccountAnswer
C4_NoAccountNeverPending ==
    \A p \in Procs : req[p].kind = "forgot" => UserByEmail(users, req[p].email) # 0
C4_NoAccountInert ==
    (ForgotDone /\ UserByEmail(users, done.email) = 0)' =>
        /\ nreq' = nreq + 1 /\ done'.serial = nreq'
        /\ tokens' = tokens /\ outbox' = outbox
C4_NoEnumeration ==
    [](C4_SameAnswer /\ C4_NoAccountNeverPending) /\ [][C4_NoAccountInert]_vars

\* C4 witness: after a token was issued and mailed for an account, a
\* submission for an email without account got the same acknowledgement.
C4_Witness ==
    /\ ForgotDone /\ UserByEmail(users, done.email) = 0
    /\ done.resp = NoAccountAnswer
    /\ Len(tokens) = 1 /\ Len(outbox) = 1

\* C5: also when the commit of the token row or the notifier fails, a valid
\* forgot_password submission for an email with an account gets the response
\* a submission for an email without account gets.
C5_NoErrorPathDistinguishes ==
    ForgotDone /\ done.fault # "crash" => done.resp = NoAccountAnswer

\* C6: a request whose token was used when it was looked up and is expired
\* when it is checked is answered "already used", GET and POST alike.
C6_UsedBeforeExpired ==
    \A m \in Methods :
        ResetDone /\ done.method = m /\ done.row.id # 0
            /\ done.row.used /\ now > done.row.expires_at
        => done.resp = Rejection("AlreadyUsed")

\* C6 witness: a POST with a used and expired token was answered "already
\* used".
C6_Witness ==
    /\ ResetDone /\ done.method = "POST" /\ done.row.id # 0
    /\ tokens[done.row.id].used /\ now > tokens[done.row.id].expires_at
    /\ done.resp = Rejection("AlreadyUsed")

\* looking a token up changes neither table
ResetLookupReadsOnly ==
    \A p \in Procs : req[p].pc = "idle" /\ req'[p].kind = "reset" => ~StoreChanges

\* the checks of the loaded token ended the completed request (it staged no
\* write), so now is the time they read
EndedByChecks == ResetDone /\ done.pend = NoPending

\* C7: a request with a stored, unused token whose expires_at is in the past
\* when it is checked is answered "expired", whatever it submits, and its
\* steps change neither the users nor the tokens table.
C7_Case ==
    /\ EndedByChecks /\ done.row.id # 0
    /\ ~done.row.used /\ now > done.row.expires_at
C7_ExpiredAnswer == C7_Case => done.resp = Rejection("Expired")
C7_ExpiredChangesNothing == C7_Case' => ~StoreChanges
C7_ExpiredRejected ==
    [](C7_ExpiredAnswer) /\ [][C7_ExpiredChangesNothing /\ ResetLookupReadsOnly]_vars

\* C7 witness: a POST with matching strong passwords and an expired, unused
\* token was answered "expired"; the token is still unused and the owner's
\* hash is the old one.
C7_Witness ==
    /\ C7_Case /\ ResetFormValid(done.method, done.password, done.confirm)
    /\ done.resp = Rejection("Expired")
    /\ ~tokens[done.row.id].used
    /\ users[done.row.user_id].password_hash = generate_password_hash(OldPassword, 0)

\* C8: a request whose token string is that of no stored token is answered
\* "invalid or expired link", and its steps change neither table.
C8_Case == ResetDone /\ \A i \in DOMAIN tokens : tokens[i].token # done.token
C8_InvalidAnswer == C8_Case => done.resp = Rejection("NotFound")
C8_InvalidChangesNothing == C8_Case' => ~StoreChanges
C8_UnknownTokenRejected ==
    [](C8_InvalidAnswer) /\ [][C8_InvalidChangesNothing /\ ResetLookupReadsOnly]_vars

\* C8 witness: with a valid token stored, a POST with matching strong
\* passwords and another token string was answered "invalid".
C8_Witness ==
    /\ C8_Case /\ ResetFormValid(done.method, done.password, done.confirm)
    /\ \E i \in DOMAIN tokens : validate(LoadToken(tokens, tokens[i].token), now) = "Valid"
    /\ done.resp = Rejection("NotFound")

\* C9: every token row expires one hour after its creation and, until a
\* redemption with it commits, is unused, validates as Valid at every time
\* before its expiry and as Expired at every time after it.
C9_TokenLifetime ==
    \A i \in DOMAIN tokens :
        LET t == tokens[i]
            c == validate(LoadToken(tokens, t.token), now)
        IN  /\ t.expires_at = t.created_at + TicksPerHour
            /\ t.created_at <= now
            /\ redemptions[i] = 0 =>
                   /\ ~t.used
                   /\ now < t.expires_at => c = "Valid"
                   /\ now > t.expires_at => c = "Expired"

\* C9 witness: a token that was never redeemed is past its expiry and
\* validates as Expired.
C9_Witness ==
    \E i \in DOMAIN tokens :
        /\ redemptions[i] = 0 /\ now > tokens[i].created_at + TicksPerHour
        /\ validate(LoadToken(tokens, tokens[i].token), now) = "Expired"

\* the three classes of a token as functions of (now, expires_at, used)
IsUsed(t, expires_at, used) == used
IsExpired(t, expires_at, used) == ~used /\ t > expires_at
IsValidUnused(t, expires_at, used) == ~used /\ t <= expires_at
Classification(t, expires_at, used) ==
    CASE IsUsed(t, expires_at, used) -> "AlreadyUsed"
      [] IsExpired(t, expires_at, used) -> "Expired"
      [] IsValidUnused(t, expires_at, used) -> "Valid"

\* C10: at every time, for every stored token, exactly one of valid-unused,
\* expired, used holds and it is the outcome of reset_password's checks of
\* that token; what a request is answered by those checks is determined by
\* (now, expires_at, used) of the token it loaded.
C10_Stored ==
    \A i \in DOMAIN tokens :
        LET t == tokens[i]
        IN  /\ Cardinality({c \in {"AlreadyUsed", "Expired", "Valid"} :
                    validate(LoadToken(tokens, t.token), now) = c}) = 1
            /\ validate(LoadToken(tokens, t.token), now)
                   = Classification(now, t.expires_at, t.used)
C10_Answer ==
    EndedByChecks /\ done.row.id # 0 =>
        LET c == Classification(now, done.row.expires_at, done.row.used)
        IN  done.resp = IF c = "Valid" THEN Render("auth/reset_password.html")
                        ELSE Rejection(c)
C10_OneClassification == C10_Stored /\ C10_Answer

\* C10 witness: a stored token is used and past its expiry, and a request
\* with it was answered by its class.
C10_Witness ==
    /\ ResetDone /\ done.row.id # 0
    /\ tokens[done.row.id].used /\ now > tokens[done.row.id].expires_at
    /\ done.resp = Rejection(Classification(now, done.row.expires_at, done.row.used))

\* the notifier failed for the link that embeds this token string
MailFailed(token) ==
    \E k \in DOMAIN outbox : outbox[k].link = reset_link(token) /\ ~outbox[k].sent

\* the answer to a redemption that committed
ResetSucceeded == Redirect("auth.login", FlashSuccess)

\* C11: when the notifier returns false, the token of that request stays
\* stored as it was issued: the step that calls the notifier changes no token
\* row, the token is unused and validates as Valid up to its expiry until a
\* redemption with it commits, and a later POST with matching strong
\* passwords that loads it unused succeeds unless its checks find it expired
\* or its commit fails.
C11_TokenKept ==
    \A k \in DOMAIN outbox :
        ~outbox[k].sent =>
            LET i == FirstByToken(tokens, outbox[k].link[3])
            IN  /\ i # 0
                /\ tokens[i].expires_at = tokens[i].created_at + expiration_hours * TicksPerHour
                /\ redemptions[i] = 0 =>
                       /\ ~tokens[i].used
                       /\ now <= tokens[i].expires_at =>
                              validate(LoadToken(tokens, tokens[i].token), now) = "Valid"
C11_Redeemable ==
    /\ ResetDone /\ MailFailed(done.token) /\ done.row.id # 0 /\ ~done.row.used
    /\ ResetFormValid(done.method, done.password, done.confirm)
    /\ done.fault = "none"
    => IF done.pend = NoPending
       THEN now > done.row.expires_at /\ done.resp = Rejection("Expired")
       ELSE /\ done.resp = ResetSucceeded
            /\ tokens[done.row.id].used
            /\ check_password_hash(users[done.row.user_id].password_hash, done.password)
C11_SendKeepsTokens == outbox' # outbox => tokens' = tokens
C11_NotifierFailureKeepsToken ==
    [](C11_TokenKept /\ C11_Redeemable) /\ [][C11_SendKeepsTokens]_vars

\* C11 witness: a token whose email the notifier failed to send has been
\* redeemed.
C11_Witness ==
    /\ ResetDone /\ MailFailed(done.token) /\ done.resp = ResetSucceeded
    /\ tokens[done.row.id].used
    /\ check_password_hash(users[done.row.user_id].password_hash, NewPassword)

\* C12: a valid forgot_password submission for an email with an account
\* that got past the commit is answered by the redirect to the login page
\* with the generic flash, whether the notifier returned true or false.
C12_NotifierResultHidden ==
    \A sent \in BOOLEAN :
        /\ ForgotDone /\ done.fault = "none" /\ UserByEmail(users, done.email) # 0
        /\ outbox # <<>> /\ outbox[Len(outbox)].sent = sent
        => /\ outbox[Len(outbox)].to = done.email
           /\ done.resp = Redirect("auth.login", FlashGeneric)

\* C12 witness: one request whose email was sent and a later one whose email
\* was not have both been answered; the later one got the generic answer.
C12_Witness ==
    /\ ForgotDone /\ done.fault = "none" /\ Len(outbox) = 2
    /\ outbox[1].sent /\ ~outbox[2].sent /\ outbox[2].to = done.email
    /\ done.resp = Redirect("auth.login", FlashGeneric)

\* another token of the same user has been redeemed
SiblingRedeemed(i) ==
    \E j \in DOMAIN tokens :
        j # i /\ tokens[j].user_id = tokens[i].user_id /\ redemptions[j] > 0

\* C13: tokens issued for the same account have distinct strings; issuing a
\* token changes no earlier row and a redemption changes no row but its own;
\* a token that was not redeemed is unused and validates as Valid up to its
\* own expiry whatever happened to the others, and a POST with matching
\* strong passwords that loads it unused, after another token of the account
\* was redeemed, succeeds unless its checks find it expired or its commit
\* fails.
C13_Distinct ==
    \A i, j \in DOMAIN tokens :
        i # j /\ tokens[i].user_id = tokens[j].user_id => tokens[i].token # tokens[j].token
C13_EachValid ==
    \A i \in DOMAIN tokens :
        redemptions[i] = 0 =>
            /\ ~tokens[i].used
            /\ LoadToken(tokens, tokens[i].token).id = i
            /\ now <= tokens[i].expires_at =>
                   validate(LoadToken(tokens, tokens[i].token), now) = "Valid"
C13_OtherRedeemable ==
    /\ ResetDone /\ done.row.id # 0 /\ ~done.row.used /\ done.fault = "none"
    /\ ResetFormValid(done.method, done.password, done.confirm)
    /\ SiblingRedeemed(done.row.id)
    => IF done.pend = NoPending
       THEN now > done.row.expires_at /\ done.resp = Rejection("Expired")
       ELSE done.resp = ResetSucceeded /\ tokens[done.row.id].used
C13_OthersUntouched ==
    /\ Len(tokens') >= Len(tokens)
    /\ Len(tokens') > Len(tokens) => \A i \in DOMAIN tokens : tokens'[i] = tokens[i]
    /\ \A i, j \in DOMAIN tokens : i # j /\ tokens'[i] # tokens[i] => tokens'[j] = tokens[j]
C13_IndependentTokens ==
    [](C13_Distinct /\ C13_EachValid /\ C13_OtherRedeemable) /\ [][C13_OthersUntouched]_vars

\* C13 witness: two tokens were issued for the same account, one was
\* redeemed, and then the other has been redeemed too.
C13_Witness ==
    /\ ResetDone /\ done.resp = ResetSucceeded /\ done.row.id # 0
    /\ SiblingRedeemed(done.row.id)
    /\ \A i \in DOMAIN tokens : tokens[i].used /\ redemptions[i] = 1

\* C14: no two stored token rows, of the same user or of different users,
\* have the same token string; the string of a row a request is about to
\* insert is that of no stored row and of no row another request is about to
\* insert.
C14_Pending == {p \in Procs : req[p].kind = "forgot" /\ req[p].pc = "commit"}
C14_TokenStringsUnique ==
    /\ \A i, j \in DOMAIN tokens : i # j => tokens[i].token # tokens[j].token
    /\ \A p \in C14_Pending :
           /\ \A i \in DOMAIN tokens : tokens[i].token # req[p].newtok.token
           /\ \A q \in C14_Pending : q # p => req[q].newtok.token # req[p].newtok.token

\* C14 witness: three rows are stored, two of one user and one of the other.
C14_Witness ==
    /\ Len(tokens) = 3
    /\ \E i, j, k \in DOMAIN tokens :
           /\ i # j /\ tokens[i].user_id = tokens[j].user_id
           /\ tokens[k].user_id # tokens[i].user_id
    /\ Cardinality({tokens[i].token : i \in DOMAIN tokens}) = 3

\* C15: a request whose token passes the checks and whose submission is a
\* GET, or a POST with a mismatching or weak password, gets the form again;
\* none of its steps changes the users or the tokens table, so the token is
\* as valid after it as before; and every POST with matching strong
\* passwords whose token passes the checks stages the redemption and, unless
\* its commit fails, succeeds: no earlier request that did not redeem the
\* token can prevent it.
C15_Case ==
    /\ EndedByChecks /\ done.row.id # 0
    /\ ~done.row.used /\ now <= done.row.expires_at
    /\ ~ResetFormValid(done.method, done.password, done.confirm)
C15_FormAgain == C15_Case => done.resp = Render("auth/reset_password.html")
C15_Retry ==
    /\ ResetDone /\ done.row.id # 0 /\ ~done.row.used
    /\ ResetFormValid(done.method, done.password, done.confirm)
    => \/ done.fault # "none"
       \/ /\ done.pend = NoPending /\ now > done.row.expires_at
          /\ done.resp = Rejection("Expired")
       \/ /\ done.pend # NoPending /\ done.resp = ResetSucceeded
          /\ tokens[done.row.id].used
          /\ users[done.row.user_id].password_hash = done.pend.hash
C15_ChangesNothing ==
    C15_Case' =>
        /\ ~StoreChanges
        /\ validate(LoadToken(tokens', done'.token), now')
               = validate(LoadToken(tokens, done'.token), now)
C15_FailedAttemptKeepsToken ==
    [](C15_FormAgain /\ C15_Retry) /\ [][C15_ChangesNothing /\ ResetLookupReadsOnly]_vars

\* C15 witness: a POST with mismatching passwords on a valid token got the
\* form again; the token still validates as Valid and its owner's hash is
\* the old one.
C15_Witness ==
    /\ C15_Case /\ done.method = "POST" /\ done.password # done.confirm
    /\ done.resp = Render("auth/reset_password.html")
    /\ validate(LoadToken(tokens, done.token), now) = "Valid"
    /\ users[done.row.user_id].password_hash = generate_password_hash(OldPassword, 0)

\* a redemption commits in this step
RedemptionCommits == (ResetDone /\ done.resp = ResetSucceeded)'

\* C16 as stated: when a redemption commits, the submitted password verifies
\* against the owner's stored hash, every password that verified before the
\* commit no longer does, and the token is marked used.
C16_OldPasswordAlwaysFails ==
    [][RedemptionCommits =>
         LET u == done'.row.user_id
         IN  /\ check_password_hash(users'[u].password_hash, done'.password)
             /\ \A pw \in Passwords :
                    check_password_hash(users[u].password_hash, pw) =>
                        ~check_password_hash(users'[u].password_hash, pw)
             /\ tokens'[done'.row.id].used]_vars

\* C16 amended: when a redemption commits, the submitted password verifies
\* against the owner's stored hash, every other password that verified
\* before the commit no longer does, and the token is marked used.
C16_NewPasswordReplacesOld ==
    [][RedemptionCommits =>
         LET u == done'.row.user_id
         IN  /\ check_password_hash(users'[u].password_hash, done'.password)
             /\ \A pw \in Passwords :
                    check_password_hash(users[u].password_hash, pw) /\ pw # done'.password =>
                        ~check_password_hash(users'[u].password_hash, pw)
             /\ tokens'[done'.row.id].used]_vars

\* C16 witness: a redemption with a new password has committed: the new
\* password verifies, the old one does not, the token is used.
C16_Witness ==
    /\ ResetDone /\ done.resp = ResetSucceeded /\ done.password = NewPassword
    /\ check_password_hash(users[done.row.user_id].password_hash, NewPassword)
    /\ ~check_password_hash(users[done.row.user_id].password_hash, OldPassword)
    /\ tokens[done.row.id].used

\* C17: a token that is used in the store is stored and used after every
\* step of forgot_password, reset_password, login and register.
C17_UsedIsMonotone ==
    [][\A i \in DOMAIN tokens :
           tokens[i].used => i \in DOMAIN tokens' /\ tokens'[i].used]_vars

\* C17 witness: after a token was redeemed, a login with the new password
\* has been served and the token is still used.
C17_Witness ==
    /\ done.kind = "login" /\ done.resp = Redirect("main.dashboard", FlashLoggedIn)
    /\ done.password = NewPassword
    /\ \E i \in DOMAIN tokens :
           /\ tokens[i].used /\ redemptions[i] = 1
           /\ users[tokens[i].user_id].email = done.email

\* C18: no step changes the expires_at of a stored token; a token that is
\* past its expiry is past it after every step and validates as Expired or
\* AlreadyUsed; every request whose checks run when the token it loaded is
\* past its expiry is rejected as expired or already used, and no check made
\* past the expiry lets a request go on to redeem the token.
C18_ExpiresAtFixed ==
    \A i \in DOMAIN tokens :
        i \in DOMAIN tokens' /\ tokens'[i].expires_at = tokens[i].expires_at
C18_StaysExpired ==
    \A i \in DOMAIN tokens :
        now > tokens[i].expires_at =>
            /\ now' > tokens'[i].expires_at
            /\ validate(LoadToken(tokens', tokens'[i].token), now')
                   \in {"Expired", "AlreadyUsed"}
C18_NoLateAdmission ==
    \A p \in Procs :
        req[p].pc = "check" /\ req'[p].pc = "commit" => now <= req[p].row.expires_at
C18_FoundExpired ==
    EndedByChecks /\ done.row.id # 0 /\ now > done.row.expires_at =>
        done.resp \in {Rejection("Expired"), Rejection("AlreadyUsed")}
C18_ExpiryIsTerminal ==
    [](C18_FoundExpired)
        /\ [][C18_ExpiresAtFixed /\ C18_StaysExpired /\ C18_NoLateAdmission]_vars

\* C18 witness: a token that expired an hour ago and was never redeemed is
\* presented by the last request of the run and found expired.
C18_Witness ==
    /\ EndedByChecks /\ done.row.id # 0 /\ done.serial = MaxRequests
    /\ now >= done.row.expires_at + TicksPerHour /\ now = MaxTime
    /\ redemptions[done.row.id] = 0
    /\ done.resp = Rejection("Expired")

\* the latest step completed a forgot_password request that called the
\* notifier
NotifierCalled ==
    /\ ForgotDone /\ done.fault = "none"
    /\ UserByEmail(users, done.email) # 0 /\ outbox # <<>>

\* C19: every call of the notifier is made by a forgot_password request
\* whose token row is already committed, with the email of the token's user
\* and the link whose last segment is the token string of that row; no token
\* is mailed twice, a request that is about to call the notifier has not
\* called it yet, and a request for an existing account that returns
\* normally has called it in its last step, once.
C19_Mailed ==
    /\ Len(outbox) <= Len(tokens)
    /\ \A k \in DOMAIN outbox :
           \E i \in DOMAIN tokens :
               /\ outbox[k].link = reset_link(tokens[i].token)
               /\ outbox[k].link[Len(outbox[k].link)] = tokens[i].token
               /\ outbox[k].to = users[tokens[i].user_id].email
    /\ \A k, l \in DOMAIN outbox : k # l => outbox[k].link # outbox[l].link
    /\ \A p \in Procs :
           req[p].kind = "forgot" /\ req[p].pc = "send" =>
               /\ \E i \in DOMAIN tokens :
                      /\ tokens[i].token = req[p].newtok.token
                      /\ tokens[i].user_id = req[p].newtok.user_id
               /\ \A k \in DOMAIN outbox : outbox[k].link # reset_link(req[p].newtok.token)
C19_Call ==
    outbox' # outbox =>
        \E p \in Procs :
            /\ req[p].kind = "forgot" /\ req[p].pc = "send" /\ req'[p] = Idle
            /\ Len(outbox') = Len(outbox) + 1
            /\ SubSeq(outbox', 1, Len(outbox)) = outbox
            /\ outbox'[Len(outbox')].to = req[p].email
            /\ outbox'[Len(outbox')].link = reset_link(req[p].newtok.token)
            /\ FirstByToken(tokens, req[p].newtok.token) # 0
            /\ tokens' = tokens
C19_Once == NotifierCalled' => Len(outbox') = Len(outbox) + 1
C19_CommitThenNotify == [](C19_Mailed) /\ [][C19_Call /\ C19_Once]_vars

\* C19 witness: two requests for the same account have each committed a
\* token and called the notifier with the link of their own token.
C19_Witness ==
    /\ NotifierCalled /\ Len(outbox) = 2 /\ Len(tokens) = 2
    /\ outbox[1].to = done.email /\ outbox[2].to = done.email
    /\ outbox[1].link = reset_link(tokens[1].token)
    /\ outbox[2].link = reset_link(tokens[2].token)

\* C20: the notifier returns true exactly when an API key is configured
\* and the provider answers 200, 201 or 202; without a key, with another
\* status or when the provider raises it returns false, and the request
\* that called it returns normally.
C20_NotifierResult ==
    NotifierCalled =>
        LET sent == outbox[Len(outbox)].sent
        IN  /\ sent <=> /\ done.api_key /\ ~done.provider.raised
                        /\ done.provider.status \in {200, 201, 202}
            /\ ~done.api_key => ~sent
            /\ done.provider.raised => ~sent
            /\ done.provider.status \notin {200, 201, 202} => ~sent
            /\ done.resp.code = 302

\* C20 witness: the provider accepted the email of one request and raised
\* for the next one, whose notifier call returned false.
C20_Witness ==
    /\ NotifierCalled /\ Len(outbox) = 2
    /\ outbox[1].sent /\ ~outbox[2].sent
    /\ done.api_key /\ done.provider.raised

\* the latest step ended a request by a storage failure
StorageFailed == done.fault = "exception"

\* C21: a forgot_password or reset_password request whose commit raises is
\* answered by the 500 response "Internal server error"; the step that ends
\* it changes neither table and calls no notifier, and the only steps that
\* change a table are commits that succeed, so the request leaves no token
\* row, no password hash and no used flag behind.
C21_GenericError ==
    StorageFailed =>
        /\ done.kind \in {"forgot", "reset"}
        /\ done.resp.code = 500 /\ done.resp.body = "Internal server error"
C21_NothingWritten ==
    StorageFailed' =>
        /\ ~StoreChanges /\ outbox' = outbox
        /\ done'.kind = "forgot" =>
               \A i \in DOMAIN tokens' : tokens'[i].token # done'.serial
        /\ done'.kind = "reset" =>
               /\ ~tokens'[done'.pend.token_id].used \/ tokens[done'.pend.token_id].used
               /\ users'[done'.pend.user_id].password_hash # done'.pend.hash
C21_OnlyCommitsWrite ==
    StoreChanges =>
        \E p \in Procs :
            /\ req[p].pc = "commit"
            /\ \/ req[p].kind = "forgot" /\ req'[p].pc = "send"
               \/ req[p].kind = "reset" /\ done'.resp = ResetSucceeded /\ done'.fault = "none"
C21_StorageFailureRollsBack ==
    [](C21_GenericError) /\ [][C21_NothingWritten /\ C21_OnlyCommitsWrite]_vars

\* C21 witness: the commit of a redemption raised: the request got the 500
\* response, its token is unused and the owner's hash is the old one.
C21_Witness ==
    /\ StorageFailed /\ done.kind = "reset" /\ done.resp.code = 500
    /\ ~tokens[done.row.id].used
    /\ users[done.row.user_id].password_hash = generate_password_hash(OldPassword, 0)

\* C22: after every step of forgot_password and reset_password every token
\* row that was stored is still stored, at its place, with its token string,
\* its user and its creation time.
C22_TokensOnlyGrow ==
    [][/\ Len(tokens') >= Len(tokens)
       /\ \A i \in DOMAIN tokens :
              /\ i \in DOMAIN tokens'
              /\ tokens'[i].token = tokens[i].token
              /\ tokens'[i].user_id = tokens[i].user_id
              /\ tokens'[i].created_at = tokens[i].created_at]_vars

\* C22 witness: a token was redeemed and has expired, a request with it was
\* rejected as already used, and the row is still stored.
C22_Witness ==
    /\ ResetDone /\ done.resp = Rejection("AlreadyUsed") /\ done.row.id # 0
    /\ redemptions[done.row.id] = 1 /\ now > tokens[done.row.id].expires_at
    /\ tokens[done.row.id].token = done.token

\* the latest step completed a forgot_password or reset_password request of
\* an authenticated client
AuthedDone == done.authed /\ done.kind \in {"forgot", "reset"}

\* C23: a forgot_password or reset_password request of an authenticated
\* client is answered in its first step by the redirect to the dashboard;
\* that step adds no token row, calls no notifier and changes no hash and no
\* used flag, whatever the token it presents, and no such request is ever
\* past its first step.
C23_Dashboard ==
    AuthedDone => done.resp = Redirect("main.dashboard", NoFlash) /\ done.fault = "none"
C23_NeverInFlight == \A p \in Procs : req[p].pc # "idle" => ~req[p].authed
C23_Inert ==
    AuthedDone' =>
        /\ nreq' = nreq + 1 /\ done'.serial = nreq'
        /\ ~StoreChanges /\ outbox' = outbox
        /\ Len(tokens') = Len(tokens)
C23_AuthenticatedRedirected ==
    [](C23_Dashboard /\ C23_NeverInFlight) /\ [][C23_Inert]_vars

\* C23 witness: an authenticated client presented a token that is valid and
\* was redirected to the dashboard; the token is still valid.
C23_Witness ==
    /\ AuthedDone /\ done.kind = "reset"
    /\ done.resp = Redirect("main.dashboard", NoFlash)
    /\ validate(LoadToken(tokens, done.token), now) = "Valid"

\* C24: the path parameter taken from a link that was passed to the
\* notifier is the token string of exactly one stored row, the row that the
\* request which called the notifier had committed, owned by the user the
\* email went to; a reset_password request that presents it loads that row.
C24_LinkNamesRow ==
    \A k \in DOMAIN outbox :
        LET s == path_token(outbox[k].link)
            row == LoadToken(tokens, s)
        IN  /\ row.id # 0
            /\ Cardinality({i \in DOMAIN tokens : tokens[i].token = s}) = 1
            /\ tokens[row.id].token = s
            /\ users[row.user_id].email = outbox[k].to
C24_LinkOfOwnToken ==
    outbox' # outbox =>
        \E p \in Procs :
            LET i == FirstByToken(tokens', path_token(outbox'[Len(outbox')].link))
            IN  /\ req[p].kind = "forgot" /\ req[p].pc = "send" /\ req'[p] = Idle
                /\ i # 0
                /\ tokens'[i].token = req[p].newtok.token
                /\ tokens'[i].user_id = req[p].newtok.user_id
                /\ tokens'[i].created_at = req[p].newtok.created_at
                /\ tokens'[i].expires_at = req[p].newtok.expires_at
C24_PresentedLoadsRow ==
    \A p \in Procs, k \in DOMAIN outbox :
        /\ req[p].pc = "idle" /\ req'[p].kind = "reset" /\ req'[p].pc = "check"
        /\ req'[p].token = path_token(outbox[k].link)
        => /\ req'[p].row.id # 0
           /\ tokens[req'[p].row.id].token = path_token(outbox[k].link)
           /\ req'[p].row.user_id = tokens[req'[p].row.id].user_id
           /\ req'[p].row.expires_at = tokens[req'[p].row.id].expires_at
           /\ req'[p].row.used = tokens[req'[p].row.id].used
           /\ users[req'[p].row.user_id].email = outbox[k].to
C24_LinkRoundTrip ==
    [](C24_LinkNamesRow) /\ [][C24_LinkOfOwnToken /\ C24_PresentedLoadsRow]_vars

\* C24 witness: of two tokens mailed to two users, the one in the second
\* link was presented and redeemed for the user the second email went to.
C24_Witness ==
    /\ Len(outbox) = 2 /\ outbox[1].to # outbox[2].to
    /\ ResetDone /\ done.resp = ResetSucceeded
    /\ done.token = path_token(outbox[2].link)
    /\ users[done.row.user_id].email = outbox[2].to
    /\ tokens[done.row.id].used

\* the latest step completed a valid registration of an anonymous client
RegisterDone ==
    /\ done.kind = "register" /\ ~done.authed
    /\ RegistrationFormValid(done.method, done.email, done.password)

\* C25: no two stored users share an email; a valid registration with an
\* email that a stored user has adds no user, leaves every stored user as it
\* was and is answered by the redirect to the login page; one with a new
\* email adds one user and leaves the stored ones as they were.
C25_EmailsUnique ==
    \A u, v \in DOMAIN users : u # v => users[u].email # users[v].email
C25_Register ==
    RegisterDone' =>
        /\ \A u \in DOMAIN users : u \in DOMAIN users' /\ users'[u] = users[u]
        /\ IF UserByEmail(users, done'.email) # 0
           THEN /\ users' = users
                /\ done'.resp = Redirect("auth.login", FlashExists)
           ELSE /\ Len(users') = Len(users) + 1
                /\ users'[Len(users')].email = done'.email
                /\ done'.resp = Redirect("auth.login", FlashCreated)
C25_UniqueEmails == [](C25_EmailsUnique) /\ [][C25_Register]_vars

\* C25 witness: an email was registered, and a second registration with it
\* was answered by the redirect to the login page without adding a user.
C25_Witness ==
    /\ RegisterDone /\ done.resp = Redirect("auth.login", FlashExists)
    /\ Len(users) = Len(UserEmail) + 1
    /\ users[Len(users)].email = done.email
    /\ users[Len(users)].password_hash.salt < done.serial

\* C26: the step in which a redemption commits replaces the password hash
\* of the user its token row names and of no other user, changes no user's
\* email, sets the used flag of the row with the presented token string and
\* changes nothing else of that row and no other row.
C26_RedemptionTouchesOnlyItsOwn ==
    [][RedemptionCommits =>
         LET i == done'.row.id
             u == tokens[i].user_id
         IN  /\ tokens[i].token = done'.token /\ done'.row.user_id = u
             /\ DOMAIN users' = DOMAIN users /\ DOMAIN tokens' = DOMAIN tokens
             /\ users'[u] = [users[u] EXCEPT !.password_hash = done'.pend.hash]
             /\ \A v \in DOMAIN users : v # u => users'[v] = users[v]
             /\ tokens'[i] = [tokens[i] EXCEPT !.used = TRUE]
             /\ \A j \in DOMAIN tokens : j # i => tokens'[j] = tokens[j]]_vars

\* C26 witness: a user holds two tokens and one of them was redeemed: the
\* other one is unused and the other user's hash is the old one.
C26_Witness ==
    /\ ResetDone /\ done.resp = ResetSucceeded /\ Len(tokens) = 2
    /\ \E j \in DOMAIN tokens :
           /\ j # done.row.id /\ ~tokens[j].used
           /\ tokens[j].user_id = done.row.user_id
    /\ \A v \in DOMAIN users :
           v # done.row.user_id =>
               users[v].password_hash = generate_password_hash(OldPassword, 0)
    /\ users[done.row.user_id].password_hash = done.pend.hash

\* C27: a request whose token was valid when a GET was answered with the
\* form, and is used when the request loads it or past its expiry when the
\* request checks it, is rejected as already used or expired, a POST with
\* matching strong passwords included, and changes neither table; a request
\* gets to its commit only if its own checks found the token valid.
C27_Case ==
    /\ EndedByChecks /\ done.row.id # 0 /\ rendered[done.row.id]
    /\ done.row.used \/ now > done.row.expires_at
C27_Rejected ==
    C27_Case =>
        done.resp = IF done.row.used THEN Rejection("AlreadyUsed")
                    ELSE Rejection("Expired")
C27_PasswordKept == C27_Case' => ~StoreChanges
C27_OwnCheck ==
    \A p \in Procs :
        req[p].pc = "check" /\ req'[p].pc = "commit" =>
            ~req[p].row.used /\ now <= req[p].row.expires_at
C27_RecheckedOnEveryRequest ==
    [](C27_Rejected) /\ [][C27_PasswordKept /\ C27_OwnCheck]_vars

\* C27 witness: the form was rendered for a valid token, the token was then
\* redeemed, and a POST with matching strong passwords and the same token
\* was rejected as already used; the hash is the one of the redemption.
C27_Witness ==
    /\ C27_Case /\ done.method = "POST"
    /\ ResetFormValid(done.method, done.password, done.confirm)
    /\ done.resp = Rejection("AlreadyUsed")
    /\ redemptions[done.row.id] = 1
    /\ users[done.row.user_id].password_hash.salt < done.serial
    /\ users[done.row.user_id].password_hash.salt # 0

\* the step is a step of a forgot_password request
ForgotStep ==
    \/ \E p \in Procs : req[p].kind = "forgot" /\ req'[p] # req[p]
    \/ \E p \in Procs : req[p].pc = "idle" /\ req'[p].kind = "forgot"
    \/ done'.kind = "forgot"

\* C28: no step of a forgot_password request changes a user or a stored
\* token row; the commit of a request for an existing account appends one
\* row, unused, of that account, every other step of the request leaves the
\* tokens table as it is, and a request for an email without account changes
\* nothing.
C28_Frame ==
    ForgotStep =>
        /\ users' = users
        /\ \A i \in DOMAIN tokens : i \in DOMAIN tokens' /\ tokens'[i] = tokens[i]
        /\ IF \E p \in Procs : req[p].pc = "commit" /\ req'[p].pc = "send"
           THEN /\ Len(tokens') = Len(tokens) + 1
                /\ ~tokens'[Len(tokens')].used
                /\ \E p \in Procs :
                       /\ req[p].pc = "commit" /\ req'[p].pc = "send"
                       /\ users[tokens'[Len(tokens')].user_id].email = req[p].email
           ELSE tokens' = tokens
C28_NoAccount ==
    (done.kind = "forgot" /\ UserByEmail(users, done.email) = 0)' =>
        users' = users /\ tokens' = tokens /\ outbox' = outbox
C28_ForgotOnlyAddsToken == [][C28_Frame /\ C28_NoAccount]_vars

\* C28 witness: a second token was issued for an account whose first token
\* was redeemed: the first row is as it was, the hash is the one of the
\* redemption, the new row is unused.
C28_Witness ==
    /\ ForgotDone /\ done.fault = "none" /\ Len(tokens) = 2
    /\ tokens[1].user_id = tokens[2].user_id
    /\ users[tokens[2].user_id].email = done.email
    /\ tokens[1].used /\ redemptions[1] = 1 /\ ~tokens[2].used
    /\ users[tokens[1].user_id].password_hash.salt # 0

LoginDone == done.kind = "login"
SessionEstablished == Redirect("main.dashboard", FlashLoggedIn)

\* a login is answered with a session exactly when the client was not logged
\* in, the form validated, a user with the email exists and the password
\* verifies against the hash stored for that user
C29_SessionIffVerified ==
    LoginDone =>
        LET u == UserByEmail(users, done.email)
        IN  done.resp = SessionEstablished <=>
                /\ ~done.authed
                /\ LoginFormValid(done.method, done.email, done.password)
                /\ u # 0
                /\ check_password_hash(users[u].password_hash, done.password)

\* no login, failed or not, changes the store
C29_LoginFrame == LoginDone' => users' = users /\ tokens' = tokens /\ outbox' = outbox

\* once a redemption has committed, a login of its user with the password of
\* the redemption is accepted
C29_NewAccepted ==
    RedemptionCommits =>
        login_response(users', FALSE, "POST", users'[done'.row.user_id].email,
                       done'.password) = SessionEstablished

\* once a redemption has committed, a login of its user with a password that
\* verified before the commit is refused
C29_OldRefused ==
    RedemptionCommits =>
        \A pw \in Passwords :
            check_password_hash(users[done'.row.user_id].password_hash, pw) =>
                login_response(users', FALSE, "POST", users'[done'.row.user_id].email,
                               pw) # SessionEstablished

\* the same, for the passwords other than the one of the redemption
C29_OldRefusedUnlessSame ==
    RedemptionCommits =>
        \A pw \in Passwords :
            check_password_hash(users[done'.row.user_id].password_hash, pw)
              /\ pw # done'.password =>
                login_response(users', FALSE, "POST", users'[done'.row.user_id].email,
                               pw) # SessionEstablished

\* C29 as stated: a login is answered with a session only when the user
\* exists and the password verifies against the stored hash, a login changes
\* no stored state, and after a redemption a login with the new password is
\* accepted and a login with the password of before is refused.
C29_OldPasswordLoginRefused ==
    [](C29_SessionIffVerified)
      /\ [][C29_LoginFrame /\ C29_NewAccepted /\ C29_OldRefused]_vars

\* C29 amended: a login is answered with a session only when the user exists
\* and the password verifies against the stored hash, a login changes no
\* stored state, and after a redemption a login with the new password is
\* accepted and a login with the password of before is refused unless it is
\* the new password.
C29_LoginChecksCurrentHash ==
    [](C29_SessionIffVerified)
      /\ [][C29_LoginFrame /\ C29_NewAccepted /\ C29_OldRefusedUnlessSame]_vars

\* C29 witness: after a redemption with a new password, a login of that user
\* with the old password has been refused as an incorrect password.
C29_Witness ==
    /\ LoginDone /\ ~done.authed /\ done.password = OldPassword
    /\ done.resp = Redirect("auth.login", FlashIncorrect)
    /\ \E i \in DOMAIN tokens :
           /\ tokens[i].used /\ redemptions[i] = 1
           /\ users[tokens[i].user_id].email = done.email
           /\ check_password_hash(users[tokens[i].user_id].password_hash, NewPassword)

====
